---- MODULE Spec2Model ----
(***************************************************************************)
(* crispy_forms.layout_slice.LayoutSlice: a selection over a layout tree   *)
(* and the four in-place rewrites wrap, wrap_once, wrap_together and       *)
(* update_attributes.                                                      *)
(*                                                                         *)
(* Python objects are references, so the layout is an object store: heap   *)
(* is a sequence of layout objects, an object's identity is its index,     *)
(* heap[1] is the Layout the LayoutSlice was built over. An element of a   *)
(* fields list is a reference: either a str (a field name) or an object.   *)
(* Positional *args and the **kwargs of the wrap calls are left empty:     *)
(* wrapped_object is modelled on its branch without args.                  *)
(***************************************************************************)
EXTENDS Integers, Sequences, FiniteSets, TLC

VARIABLES heap, key, slice, calls, before, last, budget

vars == <<heap, key, slice, calls, before, last, budget>>

---------------------------------------------------------------------------
(* Bounds of the model *)

MaxChildren == 3
MaxIdx == 3
MaxPointers == 2
MaxCalls == 2

---------------------------------------------------------------------------
(* Values *)

\* Python's None, and an int n, as the value of a slice's start, stop, step
None == <<>>
Int_(n) == <<n>>

\* The exceptions a call can end in ("" when it returns normally)
Ok == ""
IndexError == "IndexError"
AttributeError == "AttributeError"
UnboundLocalError == "UnboundLocalError"
DynamicErrorWrapped == "DynamicError: Trying to wrap a field within an already wrapped field"
DynamicErrorTogether == "DynamicError: wrap_together doesn't work with filter, only with [] operator"

\* A key of an attrs mapping that is not in the mapping
Absent == "<absent>"
AttrKeys == {"class", "css_class", "id"}
NoAttrs == [k \in AttrKeys |-> Absent]

\* The layout classes of the model: Layout (no attrs) and Div (attrs)
LayoutClasses == {"Layout", "Div"}
HasAttrs(cls) == cls # "Layout"

\* isinstance(obj, LayoutClass): neither class derives from the other
IsInstance(cls, LayoutClass) == cls = LayoutClass

\* References held in a fields list
StrRef(name) == [str |-> TRUE, name |-> name, id |-> 0]
ObjRef(id) == [str |-> FALSE, name |-> "", id |-> id]

\* LayoutClass(*fields): a new layout object holding the fields in order
NewLayoutObject(LayoutClass, fields) ==
    [cls |-> LayoutClass, fields |-> fields, attrs |-> NoAttrs]

---------------------------------------------------------------------------
(* Python lists and slices *)

\* list[i] is defined for -len <= i < len; Pos is its 1-based position
InRange(s, i) == -Len(s) <= i /\ i < Len(s)
Pos(s, i) == IF i >= 0 THEN i + 1 ELSE Len(s) + i + 1

\* del list[i]
DelItem(s, i) == [n \in 1..(Len(s) - 1) |-> IF n < Pos(s, i) THEN s[n] ELSE s[n + 1]]

Min(a, b) == IF a < b THEN a ELSE b
Max(a, b) == IF a > b THEN a ELSE b

\* slice.indices(len): the normalized <<start, stop, step>>
SliceIndices(sl, len) ==
    LET step == IF sl.step = None THEN 1 ELSE sl.step[1]
        lower == IF step < 0 THEN -1 ELSE 0
        upper == IF step < 0 THEN len - 1 ELSE len
        clamp(v) == IF v < 0 THEN Max(v + len, lower) ELSE Min(v, upper)
        start == IF sl.start = None THEN (IF step < 0 THEN upper ELSE lower)
                 ELSE clamp(sl.start[1])
        stop == IF sl.stop = None THEN (IF step < 0 THEN lower ELSE upper)
                ELSE clamp(sl.stop[1])
    IN <<start, stop, step>>

\* len(range(start, stop, step))
RangeLen(r) ==
    IF r[3] > 0 THEN (IF r[1] < r[2] THEN (r[2] - r[1] + r[3] - 1) \div r[3] ELSE 0)
    ELSE (IF r[1] > r[2] THEN (r[1] - r[2] - r[3] - 1) \div (-r[3]) ELSE 0)

\* list(range(start, stop, step))
Range(r) == [n \in 1..RangeLen(r) |-> r[1] + (n - 1) * r[3]]

\* reversed(seq)
Reversed(s) == [n \in 1..Len(s) |-> s[Len(s) + 1 - n]]

\* list[slice]: the elements at the indices of the slice, in their order
GetSlice(s, sl) ==
    LET idx == Range(SliceIndices(sl, Len(s)))
    IN [n \in 1..Len(idx) |-> s[idx[n] + 1]]

---------------------------------------------------------------------------
(* LayoutSlice.__init__ *)

\* A slice object, and a list of Pointers, as the value of self.slice
SliceOf(start, stop, step) ==
    [type |-> "slice", start |-> start, stop |-> stop, step |-> step, pointers |-> <<>>]
ListOf(pointers) ==
    [type |-> "list", start |-> None, stop |-> None, step |-> None, pointers |-> pointers]

\* The key given to the constructor: an int, a slice or a list of Pointers
IntKey(k) ==
    [type |-> "int", k |-> k, start |-> None, stop |-> None, step |-> None, pointers |-> <<>>]
SliceKey(start, stop, step) ==
    [type |-> "slice", k |-> 0, start |-> start, stop |-> stop, step |-> step, pointers |-> <<>>]
ListKey(pointers) ==
    [type |-> "list", k |-> 0, start |-> None, stop |-> None, step |-> None, pointers |-> pointers]

\* self.slice = slice(key, key + 1, 1) for an int key, otherwise the key
LayoutSliceInit(k) ==
    IF k.type = "int" THEN SliceOf(Int_(k.k), Int_(k.k + 1), Int_(1))
    ELSE IF k.type = "slice" THEN SliceOf(k.start, k.stop, k.step)
    ELSE ListOf(k.pointers)

---------------------------------------------------------------------------
(* The outcome of a call: the heap it leaves, the exception it ends in, the  *)
(* 1-based iteration of its loop that raised (0: none), the indices it del-  *)
(* eted in order, and the references its callback was applied to in order.   *)

Outcome(h, err, at, removed, visited) ==
    [heap |-> h, err |-> err, at |-> at, removed |-> removed, visited |-> visited]

\* self.layout
TheLayout == ObjRef(1)

---------------------------------------------------------------------------
(* wrapped_object, without positional args *)

AsList(fields) == [list |-> TRUE, v |-> fields]
AsOne(field) == [list |-> FALSE, v |-> field]

wrapped_object(LayoutClass, fields) ==
    IF fields.list THEN NewLayoutObject(LayoutClass, fields.v)
    ELSE NewLayoutObject(LayoutClass, <<fields.v>>)

---------------------------------------------------------------------------
(* wrap and wrap_once: the callbacks *)

\* wrap_object with the first field as the wrapped value, whatever j is
wrap_object_first(h, LayoutClass, layout_object, j) ==
    IF layout_object.str THEN [heap |-> h, err |-> AttributeError]
    ELSE LET fs == h[layout_object.id].fields
         IN IF ~InRange(fs, j) THEN [heap |-> h, err |-> IndexError]
            ELSE LET h2 == Append(h, wrapped_object(LayoutClass, AsOne(fs[1])))
                 IN [heap |-> [h2 EXCEPT ![layout_object.id].fields[Pos(fs, j)] = ObjRef(Len(h2))],
                     err |-> Ok]

\* layout_object.fields[j] = wrapped_object(LayoutClass, layout_object.fields[j])
wrap_object(h, LayoutClass, layout_object, j) ==
    IF layout_object.str THEN [heap |-> h, err |-> AttributeError]
    ELSE LET fs == h[layout_object.id].fields
         IN IF ~InRange(fs, j) THEN [heap |-> h, err |-> IndexError]
            ELSE LET h2 == Append(h, wrapped_object(LayoutClass, AsOne(fs[Pos(fs, j)])))
                 IN [heap |-> [h2 EXCEPT ![layout_object.id].fields[Pos(fs, j)] = ObjRef(Len(h2))],
                     err |-> Ok]

\* wrap_object_once with the test made on the value in the slot, not its holder
wrap_object_once_value(h, LayoutClass, layout_object, j) ==
    IF /\ ~layout_object.str
       /\ InRange(h[layout_object.id].fields, j)
       /\ LET v == h[layout_object.id].fields[Pos(h[layout_object.id].fields, j)]
          IN ~v.str /\ IsInstance(h[v.id].cls, LayoutClass)
    THEN [heap |-> h, err |-> Ok]
    ELSE wrap_object(h, LayoutClass, layout_object, j)

\* the same, unless layout_object (the holder of the slot) is a LayoutClass
wrap_object_once(h, LayoutClass, layout_object, j) ==
    IF ~layout_object.str /\ IsInstance(h[layout_object.id].cls, LayoutClass)
    THEN [heap |-> h, err |-> Ok]
    ELSE wrap_object(h, LayoutClass, layout_object, j)

Apply(function, h, LayoutClass, layout_object, j) ==
    IF function = "wrap_object" THEN wrap_object(h, LayoutClass, layout_object, j)
    ELSE wrap_object_once(h, LayoutClass, layout_object, j)

---------------------------------------------------------------------------
(* pre_map *)

\* for i in <indices>: layout_object = layout_object.fields[i]
RECURSIVE Descend(_, _, _)
Descend(h, layout_object, indices) ==
    IF indices = <<>> THEN [obj |-> layout_object, err |-> Ok]
    ELSE IF layout_object.str THEN [obj |-> layout_object, err |-> AttributeError]
    ELSE LET fs == h[layout_object.id].fields
         IN IF ~InRange(fs, Head(indices)) THEN [obj |-> layout_object, err |-> IndexError]
            ELSE Descend(h, fs[Pos(fs, Head(indices))], Tail(indices))

\* PreMapPointer without the except clause
PreMapPointerUncaught(h, function, LayoutClass, positions) ==
    IF Len(positions) = 1
    THEN Apply(function, h, LayoutClass, TheLayout, positions[Len(positions)])
    ELSE LET d == Descend(h, TheLayout, SubSeq(positions, 1, Len(positions) - 1))
         IN IF d.err # Ok THEN [heap |-> h, err |-> d.err]
            ELSE Apply(function, h, LayoutClass, d.obj, positions[Len(positions)])

\* the body of the loop over the pointers, for one pointer
PreMapPointer(h, function, LayoutClass, positions) ==
    IF Len(positions) = 1
    THEN Apply(function, h, LayoutClass, TheLayout, positions[Len(positions)])
    ELSE LET d == Descend(h, TheLayout, SubSeq(positions, 1, Len(positions) - 1))
         IN IF d.err # Ok THEN [heap |-> h, err |-> d.err]
            ELSE LET r == Apply(function, h, LayoutClass, d.obj, positions[Len(positions)])
                 IN IF r.err = IndexError
                    THEN [heap |-> r.heap, err |-> DynamicErrorWrapped]
                    ELSE r

RECURSIVE PreMapList(_, _, _, _, _)
PreMapList(h, function, LayoutClass, pointers, n) ==
    IF n > Len(pointers) THEN Outcome(h, Ok, 0, <<>>, <<>>)
    ELSE LET r == PreMapPointer(h, function, LayoutClass, pointers[n])
         IN IF r.err # Ok THEN Outcome(r.heap, r.err, n, <<>>, <<>>)
            ELSE PreMapList(r.heap, function, LayoutClass, pointers, n + 1)

\* for i in range(*self.slice.indices(len(self.layout.fields))): function(self.layout, i)
RECURSIVE PreMapRange(_, _, _, _, _)
PreMapRange(h, function, LayoutClass, indices, n) ==
    IF n > Len(indices) THEN Outcome(h, Ok, 0, <<>>, <<>>)
    ELSE LET r == Apply(function, h, LayoutClass, TheLayout, indices[n])
         IN IF r.err # Ok THEN Outcome(r.heap, r.err, n, <<>>, <<>>)
            ELSE PreMapRange(r.heap, function, LayoutClass, indices, n + 1)

\* pre_map that undoes the work of the earlier iterations when one raises
pre_map_rollback(h, sl, function, LayoutClass) ==
    LET r == IF sl.type = "slice"
             THEN PreMapRange(h, function, LayoutClass,
                              Range(SliceIndices(sl, Len(h[1].fields))), 1)
             ELSE PreMapList(h, function, LayoutClass, sl.pointers, 1)
    IN IF r.err # Ok THEN Outcome(h, r.err, r.at, <<>>, <<>>) ELSE r

pre_map(h, sl, function, LayoutClass) ==
    IF sl.type = "slice"
    THEN PreMapRange(h, function, LayoutClass, Range(SliceIndices(sl, Len(h[1].fields))), 1)
    ELSE PreMapList(h, function, LayoutClass, sl.pointers, 1)

\* LayoutSlice.wrap and LayoutSlice.wrap_once
wrap(h, sl, LayoutClass) == pre_map(h, sl, "wrap_object", LayoutClass)
wrap_once(h, sl, LayoutClass) == pre_map(h, sl, "wrap_object_once", LayoutClass)

---------------------------------------------------------------------------
(* wrap_together *)

\* for i in <indices>: if i != start: del self.layout.fields[i]
RECURSIVE RemoveRest(_, _, _, _, _)
RemoveRest(h, indices, n, start, removed) ==
    IF n > Len(indices) THEN Outcome(h, Ok, 0, removed, <<>>)
    ELSE IF indices[n] = start THEN RemoveRest(h, indices, n + 1, start, removed)
    ELSE IF ~InRange(h[1].fields, indices[n]) THEN Outcome(h, IndexError, n, removed, <<>>)
    ELSE RemoveRest([h EXCEPT ![1].fields = DelItem(h[1].fields, indices[n])],
                    indices, n + 1, start, Append(removed, indices[n]))

\* the branch of wrap_together for a slice. The object built for a store that
\* then raises is referenced from nowhere and is not kept in the heap.
WrapTogetherSlice(h, sl, LayoutClass) ==
    LET start == IF sl.start # None THEN sl.start[1] ELSE 0
        fs == h[1].fields
        layout_object == GetSlice(fs, sl)
    IN IF ~InRange(fs, start) THEN Outcome(h, IndexError, 0, <<>>, <<>>)
       ELSE LET h2 == Append(h, wrapped_object(LayoutClass, AsList(layout_object)))
                h3 == [h2 EXCEPT ![1].fields[Pos(fs, start)] = ObjRef(Len(h2))]
            IN RemoveRest(h3, Reversed(Range(SliceIndices(sl, Len(h3[1].fields)))),
                          1, start, <<>>)

\* wrap_together that wraps each pointed field before it raises for a list
wrap_together_late(h, sl, LayoutClass) ==
    IF sl.type = "slice" THEN WrapTogetherSlice(h, sl, LayoutClass)
    ELSE Outcome(PreMapList(h, "wrap_object", LayoutClass, sl.pointers, 1).heap,
                 DynamicErrorTogether, 0, <<>>, <<>>)

\* LayoutSlice.wrap_together
wrap_together(h, sl, LayoutClass) ==
    IF sl.type = "slice" THEN WrapTogetherSlice(h, sl, LayoutClass)
    ELSE Outcome(h, DynamicErrorTogether, 0, <<>>, <<>>)

---------------------------------------------------------------------------
(* update_attributes and map *)

KwKeys == {"css_class", "id"}

\* kwargs.pop(k)
Pop(kwargs, k) == [kwargs EXCEPT ![k] = Absent]

\* attrs.update(kwargs)
DictUpdate(attrs, kwargs) ==
    [k \in AttrKeys |-> IF k \in KwKeys /\ kwargs[k] # Absent THEN kwargs[k] ELSE attrs[k]]

\* update_attrs that sets class to css_class where it should append it
update_attrs_overwrite(h, layout_object, original_kwargs) ==
    IF layout_object.str \/ ~HasAttrs(h[layout_object.id].cls) THEN h
    ELSE LET attrs == h[layout_object.id].attrs
             css == original_kwargs["css_class"]
             attrs1 == IF css = Absent THEN attrs ELSE [attrs EXCEPT !["class"] = css]
             kwargs == IF css = Absent THEN original_kwargs ELSE Pop(original_kwargs, "css_class")
         IN [h EXCEPT ![layout_object.id].attrs = DictUpdate(attrs1, kwargs)]

\* the callback update_attrs(layout_object)
update_attrs(h, layout_object, original_kwargs) ==
    IF layout_object.str \/ ~HasAttrs(h[layout_object.id].cls) THEN h
    ELSE LET attrs == h[layout_object.id].attrs
             css == original_kwargs["css_class"]
             attrs1 == IF css = Absent THEN attrs
                       ELSE IF attrs["class"] # Absent
                            THEN [attrs EXCEPT !["class"] = attrs["class"] \o " " \o css]
                            ELSE [attrs EXCEPT !["class"] = css]
             kwargs == IF css = Absent THEN original_kwargs ELSE Pop(original_kwargs, "css_class")
         IN [h EXCEPT ![layout_object.id].attrs = DictUpdate(attrs1, kwargs)]

\* An unbound local, and a bound one
Unbound == <<>>
Bound(ref) == <<ref>>

\* for i in positions[1:]: previous_layout_object = layout_object;
\*                         layout_object = layout_object.fields[i]
RECURSIVE DescendPrevious(_, _, _, _)
DescendPrevious(h, layout_object, previous_layout_object, indices) ==
    IF indices = <<>>
    THEN [obj |-> layout_object, previous |-> previous_layout_object, err |-> Ok]
    ELSE IF layout_object.str
    THEN [obj |-> layout_object, previous |-> Bound(layout_object), err |-> AttributeError]
    ELSE LET fs == h[layout_object.id].fields
         IN IF ~InRange(fs, Head(indices))
            THEN [obj |-> layout_object, previous |-> Bound(layout_object), err |-> IndexError]
            ELSE DescendPrevious(h, fs[Pos(fs, Head(indices))], Bound(layout_object),
                                 Tail(indices))

\* the loop of map over the pointers; previous_layout_object is a local of map
\* and keeps its value from one pointer to the next
RECURSIVE MapList(_, _, _, _, _, _)
MapList(h, original_kwargs, pointers, n, previous_layout_object, visited) ==
    IF n > Len(pointers) THEN Outcome(h, Ok, 0, <<>>, visited)
    ELSE LET positions == pointers[n]
             fs == h[1].fields
         IN IF ~InRange(fs, positions[1]) THEN Outcome(h, IndexError, n, <<>>, visited)
            ELSE LET d == DescendPrevious(h, fs[Pos(fs, positions[1])], previous_layout_object,
                                          Tail(positions))
                 IN IF d.err # Ok THEN Outcome(h, d.err, n, <<>>, visited)
                    ELSE IF d.obj.str
                    THEN IF d.previous = Unbound
                         THEN Outcome(h, UnboundLocalError, n, <<>>, visited)
                         ELSE MapList(update_attrs(h, d.previous[1], original_kwargs),
                                      original_kwargs, pointers, n + 1, d.previous,
                                      Append(visited, d.previous[1]))
                    ELSE MapList(update_attrs(h, d.obj, original_kwargs),
                                 original_kwargs, pointers, n + 1, d.previous,
                                 Append(visited, d.obj))

\* for i in range(...): function(self.layout.fields[i])
RECURSIVE MapRange(_, _, _, _, _)
MapRange(h, original_kwargs, indices, n, visited) ==
    IF n > Len(indices) THEN Outcome(h, Ok, 0, <<>>, visited)
    ELSE LET layout_object == h[1].fields[indices[n] + 1]
         IN MapRange(update_attrs(h, layout_object, original_kwargs), original_kwargs,
                     indices, n + 1, Append(visited, layout_object))

\* LayoutSlice.map with function = update_attrs, which is LayoutSlice.update_attributes
update_attributes(h, sl, original_kwargs) ==
    IF sl.type = "slice"
    THEN MapRange(h, original_kwargs, Range(SliceIndices(sl, Len(h[1].fields))), 1, <<>>)
    ELSE MapList(h, original_kwargs, sl.pointers, 1, Unbound, <<>>)

---------------------------------------------------------------------------
(* The layouts a LayoutSlice is built over: a Layout of up to MaxChildren   *)
(* fields, each a field name or Div(name, Div(name, name)), all names       *)
(* distinct.                                                                *)

FieldNames == <<"a", "b", "c", "d", "e", "f">>

Shapes == UNION {[1..n -> {"str", "Div"}] : n \in 0..MaxChildren}

BuildLayout(shapes) ==
    LET DivCount(i) == Cardinality({j \in 1..i : shapes[j] = "Div"})
        PosOfDiv(d) == CHOOSE i \in 1..Len(shapes) : shapes[i] = "Div" /\ DivCount(i) = d
        root == NewLayoutObject("Layout",
                    [i \in 1..Len(shapes) |->
                        IF shapes[i] = "str" THEN StrRef(FieldNames[i])
                        ELSE ObjRef(2 * DivCount(i))])
        outer(n) == NewLayoutObject("Div",
                        <<StrRef(FieldNames[PosOfDiv(n \div 2)] \o "1"), ObjRef(n + 1)>>)
        inner(n) == NewLayoutObject("Div",
                        <<StrRef(FieldNames[PosOfDiv(n \div 2)] \o "2"),
                          StrRef(FieldNames[PosOfDiv(n \div 2)] \o "3")>>)
    IN [n \in 1..(1 + 2 * DivCount(Len(shapes))) |->
            IF n = 1 THEN root ELSE IF n % 2 = 0 THEN outer(n) ELSE inner(n)]

InitialLayouts == {BuildLayout(shapes) : shapes \in Shapes}

---------------------------------------------------------------------------
(* The keys a LayoutSlice is built with *)

IdxRange == (-MaxIdx)..MaxIdx
SliceBounds == {None} \cup {Int_(n) : n \in IdxRange}
SliceSteps == {None, Int_(2), Int_(-1)}

IntKeys == {IntKey(k) : k \in IdxRange}
SliceKeys == {SliceKey(a, b, c) : a \in SliceBounds, b \in SliceBounds, c \in SliceSteps}

\* the positions of a Pointer
Positions == {<<0>>, <<1>>, <<-1>>, <<0, 0>>, <<0, 1>>, <<0, 2>>, <<0, 1, 0>>, <<0, 0, 0>>}
SeqOf(S, n) == UNION {[1..m -> S] : m \in 0..n}
ListKeys == {ListKey(p) : p \in SeqOf(Positions, MaxPointers)}

\* the keys of the runs of several calls on one LayoutSlice
SeqPositions == {<<0>>, <<0, 0>>, <<0, 1>>}
SeqKeys == IntKeys \cup {ListKey(p) : p \in SeqOf(SeqPositions, MaxPointers)}

\* the kwargs of update_attributes
Kwargs(css, id) == [k \in KwKeys |-> IF k = "css_class" THEN css ELSE id]
NoKwargs == Kwargs(Absent, Absent)
KwargsSet == {Kwargs("x", Absent), Kwargs("y", Absent), Kwargs("x", "i"), Kwargs(Absent, "j")}

---------------------------------------------------------------------------
(* State machine: one LayoutSlice, and the calls made on it *)

NoCall == [at |-> 0, removed |-> <<>>, visited |-> <<>>]

InitWith(keys, n) ==
    /\ heap \in InitialLayouts
    /\ key \in keys
    /\ slice = LayoutSliceInit(key)
    /\ calls = <<>>
    /\ before = heap
    /\ last = NoCall
    /\ budget = n

\* a call returns or raises with outcome r
Called(op, LayoutClass, kwargs, r) ==
    /\ Len(calls) < budget
    /\ heap' = r.heap
    /\ calls' = Append(calls, [op |-> op, LayoutClass |-> LayoutClass, kwargs |-> kwargs,
                               raised |-> r.err])
    /\ before' = heap
    /\ last' = [at |-> r.at, removed |-> r.removed, visited |-> r.visited]
    /\ UNCHANGED <<key, slice, budget>>

Wrap ==
    \E LayoutClass \in LayoutClasses :
        Called("wrap", LayoutClass, NoKwargs, wrap(heap, slice, LayoutClass))

WrapOnce ==
    \E LayoutClass \in LayoutClasses :
        Called("wrap_once", LayoutClass, NoKwargs, wrap_once(heap, slice, LayoutClass))

WrapTogether ==
    \E LayoutClass \in LayoutClasses :
        Called("wrap_together", LayoutClass, NoKwargs, wrap_together(heap, slice, LayoutClass))

UpdateAttributes ==
    \E kwargs \in KwargsSet :
        Called("update_attributes", "", kwargs, update_attributes(heap, slice, kwargs))

Next == Wrap \/ WrapOnce \/ WrapTogether \/ UpdateAttributes

\* one call on a LayoutSlice built with an int, a slice or a list of Pointers
Init == InitWith(IntKeys \cup SliceKeys \cup ListKeys, 1)
Spec == Init /\ [][Next]_vars

\* up to MaxCalls calls on one LayoutSlice
InitSeq == InitWith(SeqKeys, MaxCalls)
SpecSeq == InitSeq /\ [][Next]_vars

---------------------------------------------------------------------------
(* Vocabulary of the properties *)

HasCalled == calls # <<>>
LastCall == calls[Len(calls)]
LastIs(op) == HasCalled /\ LastCall.op = op

\* the root's fields before the last call, and the indices the slice
\* normalizes to against their number
RootBefore == before[1].fields
IndicesBefore == Range(SliceIndices(slice, Len(RootBefore)))
ToSet(s) == {s[n] : n \in 1..Len(s)}

\* the object a call has built first: the one after the objects of before
NewRef == ObjRef(Len(before) + 1)

\* a path resolves in h: every index but the last enters an object, and the
\* last is an index of the fields of the object reached
Front(positions) == SubSeq(positions, 1, Len(positions) - 1)
Final(positions) == positions[Len(positions)]
Deepest(h, positions) == Descend(h, TheLayout, Front(positions))
Resolves(h, positions) ==
    LET d == Deepest(h, positions)
    IN d.err = Ok /\ ~d.obj.str /\ InRange(h[d.obj.id].fields, Final(positions))

\* the slot a resolving path addresses: <<holder, 1-based position>>
SlotOf(h, positions) ==
    LET d == Deepest(h, positions)
    IN <<d.obj.id, Pos(h[d.obj.id].fields, Final(positions))>>

\* the slots a resolving path enters on its way
Entered(h, positions) ==
    {SlotOf(h, SubSeq(positions, 1, m)) : m \in 1..(Len(positions) - 1)}

---------------------------------------------------------------------------
\* the last call was wrap_together over a range that covers at least one index
\* of the root and whose start is omitted or an index of the root
WrapTogetherOverRange ==
    /\ LastIs("wrap_together") /\ slice.type = "slice"
    /\ Len(IndicesBefore) >= 1
    /\ slice.start # None => InRange(RootBefore, slice.start[1])

(* C1: for every range selection R (start omitted or an index of the root,  *)
(* negative ones included, any stop and step) that covers at least one      *)
(* index of a root of N children, wrap_together leaves the root with        *)
(* N - (len(R) - 1) children and the object it has built sits at the start  *)
(* of R.                                                                    *)
C1_WrapTogetherCount ==
    WrapTogetherOverRange =>
        /\ LastCall.raised = Ok
        /\ Len(heap[1].fields) = Len(RootBefore) - (Len(IndicesBefore) - 1)
        /\ IndicesBefore[1] + 1 \in 1..Len(heap[1].fields)
        /\ heap[1].fields[IndicesBefore[1] + 1] = NewRef
        /\ heap[NewRef.id].cls = LastCall.LayoutClass

(* C9: during wrap_together over a range selection the slots are removed in *)
(* strictly descending order, each removed index is one the range covers    *)
(* other than the slot of the new object, the new object stays in the root, *)
(* the fields outside the range are still fields of the root and the fields *)
(* inside the range are the fields of the new object.                       *)
C9_RemovalOrder ==
    WrapTogetherOverRange =>
        /\ \A n \in 1..(Len(last.removed) - 1) : last.removed[n] > last.removed[n + 1]
        /\ \A n \in 1..Len(last.removed) :
              last.removed[n] \in ToSet(IndicesBefore) \ {IndicesBefore[1]}
        /\ NewRef \in ToSet(heap[1].fields)
        /\ \A i \in 1..Len(RootBefore) :
              IF i - 1 \in ToSet(IndicesBefore)
              THEN Len(heap) > Len(before) /\ RootBefore[i] \in ToSet(heap[NewRef.id].fields)
              ELSE RootBefore[i] \in ToSet(heap[1].fields)

(* C7: for a valid index k of the root (-N <= k < N), wrap over the int key *)
(* k leaves the layout that wrap over the one-element path [k] leaves.      *)
C7_IntKeyIsPath ==
    (LastIs("wrap") /\ key.type = "int" /\ InRange(RootBefore, key.k)) =>
        /\ LastCall.raised = Ok
        /\ heap = wrap(before, ListOf(<<<<key.k>>>>), LastCall.LayoutClass).heap

(* C5: update_attributes over a path that ends on a field name returns      *)
(* normally and has updated the attrs of the object holding that name, also *)
(* when the path has one element and the holder is the root.                *)
C5_LeafUpdatesHolder ==
    (/\ LastIs("update_attributes") /\ slice.type = "list" /\ Len(slice.pointers) = 1
     /\ Resolves(before, slice.pointers[1])
     /\ before[SlotOf(before, slice.pointers[1])[1]].fields[SlotOf(before, slice.pointers[1])[2]].str)
    => /\ LastCall.raised = Ok
       /\ heap = update_attrs(before, ObjRef(SlotOf(before, slice.pointers[1])[1]), LastCall.kwargs)

(* C4: wrap_together on a list of Pointers of any length raises the         *)
(* DynamicError of wrap_together and leaves every object as it was.         *)
C4_WrapTogetherRejectsList ==
    (LastIs("wrap_together") /\ slice.type = "list") =>
        /\ LastCall.raised = DynamicErrorTogether
        /\ heap = before

C4_Witness ==
    /\ LastIs("wrap_together") /\ slice.type = "list"
    /\ Len(slice.pointers) = MaxPointers
    /\ LastCall.raised = DynamicErrorTogether

C4_WitnessEmpty ==
    LastIs("wrap_together") /\ slice.type = "list" /\ slice.pointers = <<>>

---------------------------------------------------------------------------
(* wrap: its effect and its frame *)

\* the slots the selection addresses in h (for a list: of its resolving paths)
Addressed(h, sl) ==
    IF sl.type = "slice"
    THEN {<<1, i + 1>> : i \in ToSet(Range(SliceIndices(sl, Len(h[1].fields))))}
    ELSE {SlotOf(h, sl.pointers[n]) : n \in {m \in 1..Len(sl.pointers) : Resolves(h, sl.pointers[m])}}

\* a range, or a list whose paths resolve to pairwise distinct slots of which
\* none lies inside another addressed slot
Separate(h, sl) ==
    \/ sl.type = "slice"
    \/ /\ \A n \in 1..Len(sl.pointers) : Resolves(h, sl.pointers[n])
       /\ \A n, m \in 1..Len(sl.pointers) :
             n # m => /\ SlotOf(h, sl.pointers[n]) # SlotOf(h, sl.pointers[m])
                      /\ SlotOf(h, sl.pointers[m]) \notin Entered(h, sl.pointers[n])

(* C6: wrap over a range, or over a list of paths that resolve to pairwise  *)
(* distinct slots none inside another, returns normally, puts in each       *)
(* addressed slot a new LayoutClass object of its own whose only field is   *)
(* the value the slot held, leaves every other slot as it was and leaves    *)
(* the number of fields of every object unchanged.                          *)
C6_WrapFrame ==
    (LastIs("wrap") /\ Separate(before, slice)) =>
        LET A == Addressed(before, slice)
        IN /\ LastCall.raised = Ok
           /\ Len(heap) = Len(before) + Cardinality(A)
           /\ \A c \in 1..Len(before) :
                 /\ heap[c].cls = before[c].cls
                 /\ Len(heap[c].fields) = Len(before[c].fields)
                 /\ \A pos \in 1..Len(before[c].fields) :
                       IF <<c, pos>> \in A
                       THEN LET ref == heap[c].fields[pos]
                            IN /\ ~ref.str
                               /\ ref.id > Len(before)
                               /\ heap[ref.id].cls = LastCall.LayoutClass
                               /\ heap[ref.id].fields = <<before[c].fields[pos]>>
                       ELSE heap[c].fields[pos] = before[c].fields[pos]
           /\ \A a, b \in A : a # b => heap[a[1]].fields[a[2]] # heap[b[1]].fields[b[2]]

C6_Witness ==
    /\ LastIs("wrap") /\ slice.type = "list" /\ Separate(before, slice)
    /\ Len(slice.pointers) = 2
    /\ \E n \in 1..2 : Len(slice.pointers[n]) = 3
    /\ Len(heap) = Len(before) + 2

C6_WitnessRange ==
    /\ LastIs("wrap") /\ slice.type = "slice" /\ slice.step = Int_(-1)
    /\ Len(heap) = Len(before) + MaxChildren

---------------------------------------------------------------------------
(* Failures of the calls over a list of Pointers *)

\* the call made by the last call's method on the first n pointers alone
PrefixRun(n) ==
    pre_map(before, ListOf(SubSeq(slice.pointers, 1, n)),
            IF LastCall.op = "wrap" THEN "wrap_object" ELSE "wrap_object_once",
            LastCall.LayoutClass)

(* C10: when wrap over a list of Pointers raises the DynamicError of a      *)
(* wrapped field at its i-th pointer, the layout is the one that wrap over  *)
(* the i - 1 pointers before it leaves: each of them has got its new        *)
(* object, nothing else has changed, and the caller gets the error.         *)
C10_NoRollback ==
    (/\ LastIs("wrap") /\ slice.type = "list"
     /\ LastCall.raised = DynamicErrorWrapped) =>
        /\ last.at \in 1..Len(slice.pointers)
        /\ PrefixRun(last.at - 1).err = Ok
        /\ heap = PrefixRun(last.at - 1).heap
        /\ Len(heap) = Len(before) + (last.at - 1)
        /\ \A n \in (Len(before) + 1)..Len(heap) :
              /\ heap[n].cls = LastCall.LayoutClass
              /\ \E c \in 1..Len(heap) : ObjRef(n) \in ToSet(heap[c].fields)
        /\ ~Resolves(heap, slice.pointers[last.at])

C10_Witness ==
    /\ LastIs("wrap") /\ slice.type = "list"
    /\ slice.pointers = <<<<0>>, <<0, 1>>>>
    /\ LastCall.raised = DynamicErrorWrapped
    /\ last.at = 2
    /\ heap # before

\* the last index of the path is out of range in the object its other
\* indices lead to
FinalOutOfRange(h, positions) ==
    LET d == Deepest(h, positions)
    IN d.err = Ok /\ ~d.obj.str /\ ~InRange(h[d.obj.id].fields, Final(positions))

\* the path enters a field name before its last index is applied
ThroughLeaf(h, positions) ==
    LET d == Deepest(h, positions)
    IN d.err = AttributeError \/ (d.err = Ok /\ d.obj.str)

(* C3 as stated: wrap, wrap_once or update_attributes over a list whose     *)
(* first path, of two or more indices, has its last index out of range in   *)
(* the deepest object reached, or passes through a field name, ends in the  *)
(* DynamicError of a wrapped field.                                         *)
C3_AlwaysDynamicError ==
    (/\ HasCalled /\ LastCall.op \in {"wrap", "wrap_once", "update_attributes"}
     /\ slice.type = "list" /\ slice.pointers # <<>>
     /\ Len(slice.pointers[1]) >= 2
     /\ \/ FinalOutOfRange(before, slice.pointers[1])
        \/ ThroughLeaf(before, slice.pointers[1]))
    => LastCall.raised = DynamicErrorWrapped

(* C3 amended: wrap, and wrap_once when the object reached is not a         *)
(* LayoutClass, over a list of Pointers: a path of two or more indices      *)
(* whose indices but the last enter objects and whose last index is out of  *)
(* range in the object reached ends the call in the DynamicError of a       *)
(* wrapped field, at that path, with the work of the earlier paths kept.    *)
C3_NestedOutOfRange ==
    (HasCalled /\ LastCall.op \in {"wrap", "wrap_once"} /\ slice.type = "list") =>
        \A n \in 1..Len(slice.pointers) :
            LET pre == PrefixRun(n - 1)
                p == slice.pointers[n]
            IN (/\ pre.err = Ok
                /\ Len(p) >= 2
                /\ FinalOutOfRange(pre.heap, p)
                /\ \/ LastCall.op = "wrap"
                   \/ ~IsInstance(pre.heap[Deepest(pre.heap, p).obj.id].cls, LastCall.LayoutClass))
               => /\ LastCall.raised = DynamicErrorWrapped
                  /\ last.at = n
                  /\ heap = pre.heap

C3_Witness ==
    /\ LastIs("wrap_once") /\ slice.type = "list"
    /\ slice.pointers = <<<<0, 0>>, <<0, 2>>>>
    /\ LastCall.LayoutClass = "Layout"
    /\ LastCall.raised = DynamicErrorWrapped
    /\ last.at = 2

---------------------------------------------------------------------------
(* wrap followed by wrap_once on one LayoutSlice built with an int key *)

PreviousCall == calls[Len(calls) - 1]

\* the last two calls were wrap(LayoutClass), then wrap_once(LayoutClass)
WrapThenWrapOnce ==
    /\ Len(calls) >= 2
    /\ key.type = "int"
    /\ PreviousCall.op = "wrap" /\ PreviousCall.raised = Ok
    /\ LastCall.op = "wrap_once"
    /\ LastCall.LayoutClass = PreviousCall.LayoutClass

(* C2 as stated: after wrap(LayoutClass) on a single-index selection,       *)
(* wrap_once(LayoutClass) on the same selection leaves the layout that      *)
(* wrap alone left.                                                         *)
C2_WrapOnceAfterWrapIsNoOp ==
    WrapThenWrapOnce => heap = before

(* C2 amended: wrap_once skips a target when the object holding the         *)
(* addressed slot, not the value in the slot, is a LayoutClass. After       *)
(* wrap(LayoutClass) on a single-index selection k, wrap_once(LayoutClass)  *)
(* leaves the layout unchanged only when the root is a LayoutClass or k     *)
(* addresses no slot; otherwise it wraps the slot a second time, the new    *)
(* LayoutClass object holding the LayoutClass object that wrap had built.   *)
C2_WrapOnceTestsHolder ==
    WrapThenWrapOnce =>
        /\ LastCall.raised = Ok
        /\ IF IsInstance(before[1].cls, LastCall.LayoutClass) \/ IndicesBefore = <<>>
           THEN heap = before
           ELSE LET pos == IndicesBefore[1] + 1
                    wrapped == RootBefore[pos]
                IN /\ Len(IndicesBefore) = 1
                   /\ ~wrapped.str
                   /\ IsInstance(before[wrapped.id].cls, LastCall.LayoutClass)
                   /\ Len(heap) = Len(before) + 1
                   /\ heap[1].fields = [RootBefore EXCEPT ![pos] = NewRef]
                   /\ heap[NewRef.id] = NewLayoutObject(LastCall.LayoutClass, <<wrapped>>)
                   /\ \A n \in 2..Len(before) : heap[n] = before[n]

C2_Witness ==
    /\ WrapThenWrapOnce
    /\ LastCall.LayoutClass = "Div"
    /\ Len(heap) = Len(before) + 1
    /\ heap[heap[NewRef.id].fields[1].id].cls = "Div"

C2_WitnessSkipped ==
    /\ WrapThenWrapOnce
    /\ LastCall.LayoutClass = "Layout"
    /\ IndicesBefore # <<>>
    /\ heap = before

---------------------------------------------------------------------------
(* update_attributes: the attrs of the objects *)

\* how many times the callback of the last call was applied to object n
Visits(n) == Cardinality({m \in 1..Len(last.visited) : last.visited[m] = ObjRef(n)})

\* class after css has been added once, and c times
AddClass(class, css) == IF class = Absent THEN css ELSE class \o " " \o css
RECURSIVE AddClassTimes(_, _, _)
AddClassTimes(class, css, c) ==
    IF c = 0 THEN class ELSE AddClassTimes(AddClass(class, css), css, c - 1)

\* the attrs of an object after one call has applied kwargs to it c >= 1 times
Updated(attrs, kwargs, c) ==
    [k \in AttrKeys |->
        IF k = "class"
        THEN (IF kwargs["css_class"] = Absent THEN attrs[k]
              ELSE AddClassTimes(attrs[k], kwargs["css_class"], c))
        ELSE IF k = "css_class" THEN attrs[k]
        ELSE IF kwargs[k] # Absent THEN kwargs[k] ELSE attrs[k]]

(* C8 as stated: update_attributes(css_class=x) sets class to x on every    *)
(* target that has attrs and no class, and makes class the previous class,  *)
(* one space, x on every target that has a class; css_class is never a key  *)
(* of attrs and every other key of kwargs replaces the previous value.      *)
C8_ClassAccumulates ==
    LastIs("update_attributes") =>
        \A n \in 1..Len(heap) :
            (Visits(n) >= 1 /\ HasAttrs(before[n].cls)) =>
                heap[n].attrs = Updated(before[n].attrs, LastCall.kwargs, 1)

(* C8 amended: the update is made once for each time the selection          *)
(* resolves to the target. On a target with attrs that the call resolves to *)
(* exactly once, css_class=x sets class to x when there was none and makes  *)
(* it the previous class, one space, x otherwise (x, then y: "x y"); each   *)
(* further resolution to the same target in one call adds one space and x   *)
(* once more. css_class is never a key of attrs, every other key of kwargs  *)
(* replaces the previous value, and no other object changes.                *)
C8_ClassAccumulatesPerVisit ==
    LastIs("update_attributes") =>
        /\ Len(heap) = Len(before)
        /\ \A n \in 1..Len(heap) :
              /\ heap[n].cls = before[n].cls
              /\ heap[n].fields = before[n].fields
              /\ heap[n].attrs["css_class"] = Absent
              /\ IF Visits(n) >= 1 /\ HasAttrs(before[n].cls)
                 THEN heap[n].attrs = Updated(before[n].attrs, LastCall.kwargs, Visits(n))
                 ELSE heap[n].attrs = before[n].attrs
              /\ (Visits(n) = 1 /\ HasAttrs(before[n].cls) /\ LastCall.kwargs["css_class"] # Absent) =>
                    heap[n].attrs["class"] =
                        IF before[n].attrs["class"] = Absent THEN LastCall.kwargs["css_class"]
                        ELSE before[n].attrs["class"] \o " " \o LastCall.kwargs["css_class"]

C8_Witness ==
    /\ Len(calls) >= 2
    /\ PreviousCall.op = "update_attributes" /\ PreviousCall.kwargs = Kwargs("x", "i")
    /\ LastCall.op = "update_attributes" /\ LastCall.kwargs = Kwargs("y", Absent)
    /\ \E n \in 1..Len(heap) :
          /\ Visits(n) = 1
          /\ before[n].attrs["class"] = "x"
          /\ heap[n].attrs["class"] = "x y"
          /\ heap[n].attrs["id"] = "i"

C8_WitnessFirst ==
    /\ LastIs("update_attributes") /\ LastCall.kwargs = Kwargs("x", Absent)
    /\ \E n \in 1..Len(heap) :
          Visits(n) = 1 /\ before[n].attrs["class"] = Absent /\ heap[n].attrs["class"] = "x"

====
